---- MODULE Spec2Model ----
(***************************************************************************)
(* Stage registry and per-run execution engine of rambot.                  *)
(*                                                                         *)
(* The repository holds three generations of the scrape wrapper:           *)
(*   "v1"  src/scraper/scraper.py            (scrape.wrapper, 259-322)     *)
(*   "v2"  src/rambot/scraper/scraper.py     (scrape.wrapper, 562-635)     *)
(*   "v3"  src/rambot/scraper/utils.py       (scrape.wrapper, 156-193)     *)
(* and one registry, src/scraper/models.py (ScraperModeManager).           *)
(* A run executes one of the three wrappers; the variable ver says which.  *)
(***************************************************************************)
EXTENDS Integers, Sequences, FiniteSets, TLC

VARIABLES
    modes,      \* ScraperModeManager._modes : dict name -> Mode
    regLog,     \* history: the arguments of every register call, in order
    lastOp,     \* history: the last registry query and its outcome
    ver,        \* which generation of the wrapper this run executes
    mode,       \* self.mode / args.mode : the stage name selected for the run
    url,        \* args.url : the single-URL override ("None" when absent)
    mustRaise,  \* the configured must_raise list, as a set of exception kinds
    pc,         \* position of the run
    exc,        \* exception in flight inside the wrapper ("none" when there is none)
    driver,     \* self._driver : "None", "open", or "notab" (Driver built without a tab)
    input_list, \* the decoded input records of the run
    idx,        \* number of input records consumed by the item loop
    results,    \* the aggregation (list in v1, set in v2/v3, kept in insertion order)
    status,     \* ModeResult.status built by the run ("none" before / when never built)
    files,      \* the stage artifacts on disk: name -> Missing or a sequence of documents
    wrapperOutcome, \* how the scrape wrapper ended: returned value or raised exception
    outcome,    \* how Scraper() + Scraper.run() ended for the caller
    calls,      \* history: the argument of every handler invocation, in order
    yields,     \* history: per handler invocation, what it returned or that it raised
    hookCalls,  \* history: the collections the save hook was invoked with
    writes,     \* history: the (collection, status) pairs handed to Scraper.write
    reads,      \* history: the artifacts read by Scraper.read during the run
    closeCalls, \* history: number of close()/close_browser() executions in the run
    opens,      \* history: number of Driver objects constructed in the run
    fatal,      \* history: kinds of the stage-level exceptions seen by the run
    config,     \* self.config : the last ScraperConfig(...) call, its outcome and value
    waits,      \* history: number of Scraper.wait() calls completed in the run
    handles,    \* number of browsers launched by Driver(...) and not yet closed
    proxy,      \* the mitmdump process of the interceptor: "off" or "on"
    session     \* history: the calls made on the database session, in order

vars == << modes, regLog, lastOp, ver, mode, url, mustRaise, pc, exc, driver,
           input_list, idx, results, status, files, wrapperOutcome, outcome, calls, yields,
           hookCalls, writes, reads, closeCalls, opens, fatal, config,
           waits, handles, proxy, session >>

regVars == << modes, regLog, lastOp >>
runVars == << ver, mode, url, mustRaise, pc, exc, driver, input_list, idx,
              results, status, files, wrapperOutcome, outcome, calls, yields, hookCalls,
              writes, reads, closeCalls, opens, fatal, config,
              waits, handles, proxy, session >>
auxVars == << waits, handles, proxy, session >>

----------------------------------------------------------------------------
(* Bounds of the model *)

MaxRegs == 3    \* register calls explored by the registry specification
MaxRecs == 2    \* input records of a fan-out run
MaxOut  == 2    \* documents in one handler result list
MaxDocs == 2    \* documents of a collection written and read back
MaxDelay == 2   \* largest delay given to a configuration
MaxLang == 2    \* longest language code given to a configuration
MaxBody == 2    \* session.add calls made by the body of one with block

----------------------------------------------------------------------------
(* Values *)

None == "None"
Missing == "Missing"

Names == {"cities", "listing", "details"}
AllNames == Names \cup {"ghost"}          \* "ghost" is never registered

DocTypes == {"Document", "City", "Listing", "Restaurant"}

\* Document instances: a type and the link field (field equality is record equality)
Doc(t, l) == [type |-> t, link |-> l]

\* an input: None, an explicit filename (the artifact of a stage), or a callable
NoInput == [kind |-> "none", file |-> None]
FileInput(s) == [kind |-> "file", file |-> s]
CallableInput == [kind |-> "callable", file |-> None]

\* how a call ended: kind is "none" (not ended), "return", "returnNone" or "raise"
NoOutcome == [kind |-> "none", exc |-> "none", value |-> << >>]
Returned(v) == [kind |-> "return", exc |-> "none", value |-> v]
ReturnedNone == [kind |-> "returnNone", exc |-> "none", value |-> << >>]
Raised(k) == [kind |-> "raise", exc |-> k, value |-> << >>]

\* ModeResult
NoStatus == [status |-> "none", message |-> None]
ModeResult(st, msg) == [status |-> st, message |-> msg]

----------------------------------------------------------------------------
(* Configuration: src/scraper/config.py.  A language code is a sequence of
   characters. *)

Chars == {"e", "n", "1", "-"}
Letters == {"e", "n"}

\* str.isalpha: at least one character and every character a letter
isalpha(str) == Len(str) > 0 /\ \A i \in 1..Len(str) : str[i] \in Letters

\* the keyword arguments of a ScraperConfig(...) call
ConfigArgs(w, mn, mx, lg) == [window_size |-> w, min_delay |-> mn, max_delay |-> mx, lang |-> lg]

\* the field defaults of ScraperConfig
DefaultConfig == ConfigArgs(1920, 2, 5, << "e", "n" >>)

\* ScraperConfig.check_delays: "ok", or the kind of the exception raised
check_delays(c) == IF c.min_delay > c.max_delay THEN "ValueError" ELSE "ok"

\* ScraperConfig.check_window_size
check_window_size(c) == IF c.window_size < 640 THEN "ValueError" ELSE "ok"

\* a plausible bug: a language code passes when no character is a non-letter
check_languageAnyLength(c) ==
    IF \E i \in 1..Len(c.lang) : c.lang[i] \notin Letters THEN "ValueError" ELSE "ok"

\* ScraperConfig.check_language
check_language(c) == IF ~isalpha(c.lang) THEN "ValueError" ELSE "ok"

\* ScraperConfig(**a): the validators run in the order of their definition; the call
\* raises the first error (value is then empty) or returns the configuration with
\* the given values
ScraperConfig(a) ==
    IF check_delays(a) # "ok" THEN [args |-> a, raised |-> check_delays(a), value |-> << >>]
    ELSE IF check_window_size(a) # "ok"
         THEN [args |-> a, raised |-> check_window_size(a), value |-> << >>]
    ELSE IF check_language(a) # "ok"
         THEN [args |-> a, raised |-> check_language(a), value |-> << >>]
    ELSE [args |-> a, raised |-> "none", value |-> << a >>]

----------------------------------------------------------------------------
(* Stage registry: src/scraper/models.py *)

\* Mode.set_default_logs: the stored logs_output is derived from path, name and date
set_default_logs(v, path, name) ==
    IF v = None THEN << path, name, "today", "log" >> ELSE << path, v >>

\* Mode(...): the descriptor built from the arguments of a register call
Mode(a) ==
    [ name |-> a.name, func |-> a.func, input |-> a.input, save |-> a.save,
      document_input |-> a.document_input, document_output |-> a.document_output,
      path |-> a.path, save_logs |-> a.save_logs,
      logs_output |-> set_default_logs(a.logs_output, a.path, a.name) ]

\* the arguments of one register call
Args(n, f, i, s, din, dout, lo) ==
    [ name |-> n, func |-> f, input |-> i, save |-> s, document_input |-> din,
      document_output |-> dout, save_logs |-> FALSE, logs_output |-> lo, path |-> "." ]

EmptyModes == [n \in {} |-> None]

\* a plausible bug: a later registration overwrites the earlier one
registerOverwrite(M, a) ==
    [n \in (DOMAIN M) \cup {a.name} |-> IF n = a.name THEN Mode(a) ELSE M[n]]

\* ScraperModeManager.register: the registry after register(**a)
register(M, a) ==
    IF a.name \notin DOMAIN M
    THEN [n \in (DOMAIN M) \cup {a.name} |-> IF n = a.name THEN Mode(a) ELSE M[n]]
    ELSE M

\* ScraperModeManager.all
all(M) == DOMAIN M

\* a plausible bug: validate accepts every name once the registry is non-empty
validateNonEmpty(M, m) == IF DOMAIN M = {} THEN "ValueError" ELSE "ok"

\* ScraperModeManager.validate: "ok", or the kind of the exception raised
validate(M, m) == IF m \notin DOMAIN M THEN "ValueError" ELSE "ok"

\* a plausible bug: get_mode falls back to some registered descriptor
get_modeFallback(M, m) ==
    IF DOMAIN M = {}
    THEN [raised |-> "ValueError", value |-> None]
    ELSE [raised |-> "none",
          value |-> IF m \in DOMAIN M THEN M[m] ELSE M[CHOOSE n \in DOMAIN M : TRUE]]

\* ScraperModeManager.get_mode
get_mode(M, m) ==
    IF validate(M, m) # "ok"
    THEN [raised |-> "ValueError", value |-> None]
    ELSE [raised |-> "none", value |-> M[m]]

\* a plausible bug: looking up a name that is not registered inserts an empty
\* descriptor for it (the behaviour of a defaultdict or of dict.setdefault)
modes_readSetdefault(M, m) ==
    IF m \in DOMAIN M THEN M
    ELSE [n \in (DOMAIN M) \cup {m} |->
            IF n = m THEN Mode(Args(m, None, NoInput, None, None, None, None)) ELSE M[n]]

\* cls._modes after validate(m), get_mode(m) or get_func(m): the three methods only
\* test membership in the dict and index it
modes_read(M, m) == M

\* ScraperModeManager.get_func
get_func(M, m) ==
    IF validate(M, m) # "ok"
    THEN [raised |-> "ValueError", value |-> None]
    ELSE LET mode_info == get_mode(M, m)
         IN  IF mode_info.raised # "none"
             THEN mode_info
             ELSE IF mode_info.value.func = None
                  THEN [raised |-> "ValueError", value |-> None]
                  ELSE [raised |-> "none", value |-> mode_info.value.func]

\* the register calls the registry specification draws from
RegArgs ==
    { Args(n, "f", NoInput, None, None, "City", None) : n \in Names } \cup
    { Args(n, "g", FileInput("cities"), "hook", "City", "Listing", "run.log") : n \in Names } \cup
    { Args("details", None, NoInput, None, None, "Document", None) }

NoOp == [op |-> "none", arg |-> None, raised |-> "none", value |-> None]

\* a register call made at declaration time
Register(a) ==
    /\ pc = "declare"
    /\ Len(regLog) < MaxRegs
    /\ modes' = register(modes, a)
    /\ regLog' = Append(regLog, a)
    /\ lastOp' = [op |-> "register", arg |-> a.name, raised |-> "none", value |-> None]
    /\ UNCHANGED runVars

Validate(n) ==
    /\ pc = "declare"
    /\ lastOp' = [op |-> "validate", arg |-> n, raised |-> validate(modes, n), value |-> None]
    /\ UNCHANGED << modes, regLog >>
    /\ UNCHANGED runVars

GetMode(n) ==
    /\ pc = "declare"
    /\ lastOp' = [op |-> "get_mode", arg |-> n] @@ get_mode(modes, n)
    /\ UNCHANGED << modes, regLog >>
    /\ UNCHANGED runVars

GetFunc(n) ==
    /\ pc = "declare"
    /\ lastOp' = [op |-> "get_func", arg |-> n] @@ get_func(modes, n)
    /\ UNCHANGED << modes, regLog >>
    /\ UNCHANGED runVars

All ==
    /\ pc = "declare"
    /\ lastOp' = [op |-> "all", arg |-> None, raised |-> "none", value |-> all(modes)]
    /\ UNCHANGED << modes, regLog >>
    /\ UNCHANGED runVars

\* the run state before any run
RunIdle ==
    /\ ver = "none" /\ mode = None /\ url = None /\ mustRaise = {}
    /\ exc = "none" /\ driver = None /\ input_list = << >> /\ idx = 0
    /\ results = << >> /\ status = NoStatus
    /\ files = [n \in Names |-> Missing]
    /\ wrapperOutcome = NoOutcome /\ outcome = NoOutcome
    /\ calls = << >> /\ yields = << >> /\ hookCalls = << >> /\ writes = << >>
    /\ reads = {} /\ closeCalls = 0 /\ opens = 0 /\ fatal = {}
    /\ config = ScraperConfig(DefaultConfig)
    /\ waits = 0 /\ handles = 0 /\ proxy = "off" /\ session = << >>

InitRegistry ==
    /\ modes = EmptyModes
    /\ regLog = << >>
    /\ lastOp = NoOp
    /\ pc = "declare"
    /\ RunIdle

NextRegistry ==
    \/ \E a \in RegArgs : Register(a)
    \/ \E n \in AllNames : Validate(n)
    \/ \E n \in AllNames : GetMode(n)
    \/ \E n \in AllNames : GetFunc(n)
    \/ All

SpecRegistry == InitRegistry /\ [][NextRegistry]_vars

----------------------------------------------------------------------------
(* Values of a run *)

Versions == {"v1", "v2", "v3"}

ExcKinds == { "ValueError", "TypeError", "DriverError", "OSError", "HandlerError",
              "HookError", "UnboundLocalError", "AttributeError", "ValidationError",
              "NoProducerFound", "AmbiguousProducer" }

\* must_raise as configured: the default [Exception] (every kind) or the empty list
MustRaiseOptions == { {}, ExcKinds }

Urls == {None, "u9"}

LinkName == << "c1", "c2", "c3", "c4" >>
InLinkLists == { [i \in 1..k |-> LinkName[i]] : k \in 0..MaxRecs }

OutLinks == {"a", "b"}
OutDocs(t) == { Doc(t, l) : l \in OutLinks }
Junk == [type |-> "str", link |-> "junk"]        \* a hashable value that is no Document
IsDocument(x) == x.type \in DocTypes

Range(q) == { q[i] : i \in 1..Len(q) }

\* what one handler invocation does: raises, or returns None, a non-Document,
\* one Document, or a list of Documents
Y(k, ds) == [kind |-> k, docs |-> ds]
Yields(t) ==
    { Y("raise", << >>), Y("none", << >>), Y("junk", << Junk >>) } \cup
    { Y("doc", << d >>) : d \in OutDocs(t) } \cup
    { Y("list", l) : l \in {<< >>} \cup [1..MaxOut -> OutDocs(t)] }

\* a handler takes a document argument iff its stage declares an input or an input type
TakesDoc(mi) == mi.input.kind # "none" \/ mi.document_input # None

----------------------------------------------------------------------------
(* Persistence: records and artifacts *)

\* the declared fields of a Document class (the other classes are modelled by
\* their link alone)
Fields(t) == IF t = "Restaurant" THEN {"link", "name", "reviews"} ELSE {"link"}

\* a plausible bug: only the link of a document is dumped
to_dictLinkOnly(d) == [link |-> d.link]

\* Document.to_dict / output: the field map of a document (the class is not stored)
to_dict(d) == [f \in (DOMAIN d) \ {"type"} |-> d[f]]

\* document(**kw): the declared fields are taken from the keywords, other keywords
\* are ignored, and a missing field is a validation error
ValidationError == [type |-> "ValidationError", link |-> None]
construct(t, kw) ==
    IF Fields(t) \subseteq DOMAIN kw
    THEN [f \in Fields(t) \cup {"type"} |-> IF f = "type" THEN t ELSE kw[f]]
    ELSE ValidationError

\* ScrapedDocument.from_document(d, source, mode).to_dict()
scraped(d, m) == [document |-> to_dict(d), source |-> "Scraper", mode |-> m]

NoFile == [exists |-> FALSE, data |-> << >>, run_stats |-> NoStatus]

\* v1 Scraper.write: {"data": data, "run_stats": {...}}
write_v1(rs, st) ==
    [exists |-> TRUE, data |-> [i \in 1..Len(rs) |-> to_dict(rs[i])], run_stats |-> st]

\* v2/v3 Scraper.write: [d.to_dict() for d in data], data being ScrapedDocuments
write_v23(rs, m) ==
    [exists |-> TRUE, data |-> [i \in 1..Len(rs) |-> scraped(rs[i], m)], run_stats |-> NoStatus]

\* v1 Scraper.create_document: document(**obj)
create_document_v1(obj, t) == construct(t, obj)

\* v2/v3 Scraper.create_document: document(**obj.get("document", {}))
create_document_v23(obj, t) ==
    construct(t, IF "document" \in DOMAIN obj THEN obj.document ELSE << >>)

\* an artifact as an earlier run of stage n, producing documents of class t, leaves it
ArtifactOf(v, n, t, ls) ==
    LET ds == [i \in 1..Len(ls) |-> Doc(t, ls[i])]
    IN  IF v = "v1" THEN write_v1(ds, ModeResult("SUCCESS", None))
                    ELSE write_v23(ds, n)

\* an artifact as an earlier run of the "cities" stage leaves it
Artifact(v, ls) == ArtifactOf(v, "cities", "City", ls)

\* a record no Document can be built from: it has neither a link nor a document
BadRecord == [name |-> "x"]

\* an artifact whose last record is malformed
Malformed(f) == [f EXCEPT !.data = [i \in 1..Len(f.data) |->
                                       IF i = Len(f.data) THEN BadRecord ELSE f.data[i]]]

\* the records a callable input returns, in the format the wrapper's create_document reads
CallableRecords(v, ls) == Artifact(v, ls).data

----------------------------------------------------------------------------
(* Aggregation *)

\* set.update on a set kept in first-insertion order
RECURSIVE SetUpdate(_, _)
SetUpdate(rs, ds) ==
    IF ds = << >> THEN rs
    ELSE SetUpdate(IF Head(ds) \in Range(rs) THEN rs ELSE Append(rs, Head(ds)), Tail(ds))

\* list +=
ListExtend(rs, ds) == rs \o ds

\* the orders in which iterating a set can list its elements
Perms(rs) ==
    { q \in [1..Len(rs) -> Range(rs)] : \A i, j \in 1..Len(rs) : i # j => q[i] # q[j] }

----------------------------------------------------------------------------
(* Declarations: the programs whose registry a run starts from *)

Gen(n, out, h) == Args(n, "fn", NoInput, h, None, out, None)
Cons(n, inp, tin, out, h) == Args(n, "fn", inp, h, tin, out, None)

Programs ==
    { << Gen("cities", "City", "hook"),
         Cons("listing", FileInput("cities"), "City", "Listing", "hook"),
         Cons("details", FileInput("listing"), None, "Document", None) >> } \cup
    { << Gen("cities", "City", None),
         Cons("listing", NoInput, "City", "Listing", None) >> } \cup
    { << Gen("cities", "City", None),
         Cons("listing", CallableInput, "City", "Listing", "hook") >> } \cup
    { << Cons("listing", NoInput, "City", "Listing", None) >> } \cup
    { << Gen("cities", "City", None), Gen("details", "City", None),
         Cons("listing", NoInput, "City", "Listing", None) >> } \cup
    { << Gen("details", "Listing", None), Gen("cities", "City", None),
         Cons("listing", NoInput, "City", "Listing", None) >> } \cup
    { << Gen("cities", "City", None), Gen("details", "Listing", None),
         Cons("listing", NoInput, "City", "Listing", None) >> } \cup
    { << Gen("cities", "City", None),
         Cons("cities", FileInput("cities"), "City", "Listing", "hook"),
         Args("details", None, NoInput, None, None, "Document", None) >> }

\* the registry after the register calls of a program, in order
RECURSIVE Declare(_, _)
Declare(M, prog) ==
    IF prog = << >> THEN M ELSE Declare(register(M, Head(prog)), Tail(prog))

Init ==
    /\ \E prog \in Programs :
          /\ regLog = prog
          /\ modes = Declare(EmptyModes, prog)
    /\ lastOp = NoOp
    /\ ver \in Versions
    /\ mode \in AllNames
    /\ url \in Urls
    /\ mustRaise \in MustRaiseOptions
    /\ \/ files = [n \in Names |-> NoFile]
       \/ \E ls \in InLinkLists :
             files = [n \in Names |->
                        CASE n = "cities"  -> Artifact(ver, ls)
                          [] n = "listing" -> ArtifactOf(ver, "listing", "Document", ls)
                          [] OTHER         -> NoFile]
       \/ \E ls \in InLinkLists \ {<< >>} :
             files = [n \in Names |->
                        CASE n = "cities"  -> Malformed(Artifact(ver, ls))
                          [] n = "listing" -> Malformed(ArtifactOf(ver, "listing", "Document", ls))
                          [] OTHER         -> NoFile]
    /\ pc = "setup"
    /\ exc = "none" /\ driver = None /\ input_list = << >> /\ idx = 0
    /\ results = << >> /\ status = NoStatus
    /\ wrapperOutcome = NoOutcome /\ outcome = NoOutcome
    /\ calls = << >> /\ yields = << >> /\ hookCalls = << >> /\ writes = << >>
    /\ reads = {} /\ closeCalls = 0 /\ opens = 0 /\ fatal = {}
    /\ config = ScraperConfig(DefaultConfig)
    /\ waits = 0 /\ handles = 0 /\ proxy = "off" /\ session = << >>

cfgVars == << modes, regLog, lastOp, ver, mode, url, mustRaise, config >>
declVars == << regLog, lastOp, ver, mode, url, mustRaise, config >>

----------------------------------------------------------------------------
(* Error handling *)

\* errors.wrapper (v1) and ExceptionHandler.handle (v2/v3): TRUE when the exception
\* is re-raised, FALSE when it is logged and swallowed
Handle(k) == k \in mustRaise

\* v1 wrapper, except Exception: results = [], mode_result = ERROR
except_v1(k) ==
    /\ results' = << >>
    /\ status' = ModeResult("ERROR", k)
    /\ exc' = "none"
    /\ pc' = "hook"

\* v2 wrapper, except Exception: results = set(); exception_handler.handle(e)
except_v2(k) ==
    /\ results' = << >>
    /\ status' = status
    /\ exc' = IF Handle(k) THEN k ELSE "none"
    /\ pc' = "hook"

\* v3 wrapper has no except clause: the exception stays in flight into finally
finally_v3(k) ==
    /\ results' = results
    /\ status' = status
    /\ exc' = k
    /\ pc' = "hook"

\* a stage-level exception inside the wrapper's try block
Fatal(k) ==
    /\ fatal' = fatal \cup {k}
    /\ CASE ver = "v1" -> except_v1(k)
         [] ver = "v2" -> except_v2(k)
         [] OTHER      -> finally_v3(k)

----------------------------------------------------------------------------
(* Scraper.__init__ / Scraper.run *)

\* Scraper.setup: validate(args.mode) raises out of the constructor
Setup ==
    /\ pc = "setup"
    /\ IF validate(modes, mode) # "ok"
       THEN /\ outcome' = Raised("ValueError")
            /\ fatal' = fatal \cup {"ValueError"}
            /\ pc' = "done"
       ELSE /\ pc' = "run"
            /\ UNCHANGED << outcome, fatal >>
    /\ modes' = modes_read(modes, mode)
    /\ UNCHANGED declVars
    /\ UNCHANGED auxVars
    /\ UNCHANGED << exc, driver, input_list, idx, results, status, files, wrapperOutcome,
                    calls, yields, hookCalls, writes, reads, closeCalls, opens >>

\* v1 Scraper.run: get_func raises to the caller; else the wrapper is entered
run_v1 ==
    /\ pc = "run" /\ ver = "v1"
    /\ IF get_func(modes, mode).raised # "none"
       THEN /\ outcome' = Raised(get_func(modes, mode).raised)
            /\ fatal' = fatal \cup {get_func(modes, mode).raised}
            /\ pc' = "done"
       ELSE /\ pc' = "validate"
            /\ UNCHANGED << outcome, fatal >>
    /\ modes' = modes_read(modes, mode)
    /\ UNCHANGED declVars
    /\ UNCHANGED auxVars
    /\ UNCHANGED << exc, driver, input_list, idx, results, status, files, wrapperOutcome,
                    calls, yields, hookCalls, writes, reads, closeCalls, opens >>

\* v2/v3 Scraper.run: everything is inside try/except -> exception_handler.handle
run_v23 ==
    /\ pc = "run" /\ ver \in {"v2", "v3"}
    /\ IF get_func(modes, mode).raised # "none"
       THEN /\ outcome' = IF Handle(get_func(modes, mode).raised)
                          THEN Raised(get_func(modes, mode).raised)
                          ELSE ReturnedNone
            /\ fatal' = fatal \cup {get_func(modes, mode).raised}
            /\ pc' = "done"
       ELSE /\ pc' = "validate"
            /\ UNCHANGED << outcome, fatal >>
    /\ proxy' = "on"
    /\ modes' = modes_read(modes, mode)
    /\ UNCHANGED declVars
    /\ UNCHANGED << waits, handles, session >>
    /\ UNCHANGED << exc, driver, input_list, idx, results, status, files, wrapperOutcome,
                    calls, yields, hookCalls, writes, reads, closeCalls, opens >>

\* v1 Scraper.run returns what the wrapper returns and lets its exception through
run_exit_v1 ==
    /\ pc = "runexit" /\ ver = "v1"
    /\ outcome' = wrapperOutcome
    /\ pc' = "done"
    /\ UNCHANGED cfgVars
    /\ UNCHANGED auxVars
    /\ UNCHANGED << exc, driver, input_list, idx, results, status, files, wrapperOutcome,
                    calls, yields, hookCalls, writes, reads, closeCalls, opens, fatal >>

\* v2/v3 Scraper.run: an exception of the wrapper goes to exception_handler.handle
run_exit_v23 ==
    /\ pc = "runexit" /\ ver \in {"v2", "v3"}
    /\ outcome' = IF wrapperOutcome.kind = "raise" /\ ~Handle(wrapperOutcome.exc)
                  THEN ReturnedNone
                  ELSE wrapperOutcome
    /\ pc' = "done"
    /\ proxy' = IF wrapperOutcome.kind = "raise" THEN proxy ELSE "off"
    /\ UNCHANGED cfgVars
    /\ UNCHANGED << waits, handles, session >>
    /\ UNCHANGED << exc, driver, input_list, idx, results, status, files, wrapperOutcome,
                    calls, yields, hookCalls, writes, reads, closeCalls, opens, fatal >>

----------------------------------------------------------------------------
(* The scrape wrapper *)

NoArg == [type |-> "noarg", link |-> None]

\* entry of the wrapper: validate / get_mode / func is None, before the browser is opened
\* (v1 and v3 validate outside the try block; in v2 the finally block then finds
\* the local save unbound)
wrapper_validate ==
    /\ pc = "validate"
    /\ IF get_func(modes, mode).raised = "none"
       THEN /\ pc' = "open"
            /\ UNCHANGED << wrapperOutcome, fatal >>
       ELSE /\ wrapperOutcome' = IF ver = "v2" THEN Raised("UnboundLocalError")
                                              ELSE Raised("ValueError")
            /\ fatal' = fatal \cup {"ValueError"}
            /\ pc' = "runexit"
    /\ modes' = modes_read(modes, mode)
    /\ UNCHANGED declVars
    /\ UNCHANGED auxVars
    /\ UNCHANGED << exc, driver, input_list, idx, results, status, files, outcome,
                    calls, yields, hookCalls, writes, reads, closeCalls, opens >>

\* what the Driver(...) constructor does: a driver with a tab, a driver without one
\* (open then raises DriverError), or the constructor itself raises and self._driver
\* keeps its value.  The raising constructor is explored for single-URL runs.
DriverOutcomes == IF url = None THEN {"ok", "notab"} ELSE {"ok", "notab", "raises"}

\* Scraper.open / Scraper.open_browser; o is what the Driver constructor does
OpenStep(o) ==
    /\ driver' = CASE o = "ok" -> "open" [] o = "notab" -> "notab" [] OTHER -> driver
    /\ opens' = IF o = "raises" THEN opens ELSE opens + 1
    /\ handles' = IF o = "raises" THEN handles ELSE handles + 1
    /\ IF o = "ok"
       THEN /\ pc' = "resolve"
            /\ UNCHANGED << results, status, exc, fatal >>
       ELSE IF Handle("DriverError")
            THEN Fatal("DriverError")
            ELSE /\ fatal' = fatal \cup {"DriverError"}
                 /\ pc' = "resolve"
                 /\ UNCHANGED << results, status, exc >>
    /\ UNCHANGED cfgVars
    /\ UNCHANGED << waits, proxy, session >>
    /\ UNCHANGED << input_list, idx, files, wrapperOutcome, outcome,
                    calls, yields, hookCalls, writes, reads, closeCalls >>

open_v1 ==
    /\ pc = "open" /\ ver = "v1"
    /\ \E o \in DriverOutcomes : OpenStep(o)

open_browser_v23 ==
    /\ pc = "open" /\ ver \in {"v2", "v3"}
    /\ \E o \in DriverOutcomes : OpenStep(o)

\* a plausible bug: the most recently registered other stage is taken as the
\* producer, whatever its output type
get_auto_inputLast(M, m) ==
    LET mi == M[m]
        others == { i \in 1..Len(regLog) : regLog[i].name # m }
    IN  IF mi.input.kind # "none" THEN [raised |-> "none", value |-> mi.input]
        ELSE IF mi.document_input = None THEN [raised |-> "none", value |-> NoInput]
        ELSE IF others = {} THEN [raised |-> "NoProducerFound", value |-> NoInput]
        ELSE [raised |-> "none",
              value |-> FileInput(regLog[CHOOSE i \in others : \A j \in others : j <= i].name)]

\* ScraperModeManager.get_auto_input: the input source of a stage, resolving an
\* unset input through the declared input type
get_auto_input(M, m) ==
    LET mi == M[m]
        producers == { n \in DOMAIN M : M[n].document_output = mi.document_input }
    IN  IF mi.input.kind # "none" THEN [raised |-> "none", value |-> mi.input]
        ELSE IF mi.document_input = None THEN [raised |-> "none", value |-> NoInput]
        ELSE IF producers = {} THEN [raised |-> "NoProducerFound", value |-> NoInput]
        ELSE IF Cardinality(producers) > 1
             THEN [raised |-> "AmbiguousProducer", value |-> NoInput]
        ELSE [raised |-> "none", value |-> FileInput(CHOOSE n \in producers : TRUE)]

\* the input set is decided and the loop (or the generator call) is next
InputIs(recs, next) ==
    /\ input_list' = recs
    /\ pc' = next
    /\ UNCHANGED << results, status, exc, fatal >>

\* v1 wrapper, lines 280-281
resolve_v1 ==
    /\ pc = "resolve" /\ ver = "v1"
    /\ LET mi == modes[mode] IN
       IF mi.input.kind = "none"
       THEN InputIs(<< >>, "gen") /\ reads' = reads
       ELSE IF url # None
       THEN /\ reads' = reads
            /\ IF mi.document_input = None
               THEN Fatal("TypeError") /\ input_list' = input_list
               ELSE InputIs(<< to_dict(Doc(mi.document_input, url)) >>, "loop")
       ELSE IF mi.input.kind = "callable"
       THEN /\ reads' = reads
            /\ Fatal(IF Handle("TypeError") THEN "TypeError" ELSE "AttributeError")
            /\ input_list' = input_list
       ELSE /\ reads' = reads \cup {mi.input.file}
            /\ IF files[mi.input.file].exists
               THEN InputIs(files[mi.input.file].data, "loop")
               ELSE /\ Fatal(IF Handle("OSError") THEN "OSError" ELSE "AttributeError")
                    /\ input_list' = input_list
    /\ UNCHANGED cfgVars
    /\ UNCHANGED auxVars
    /\ UNCHANGED << driver, idx, files, wrapperOutcome, outcome,
                    calls, yields, hookCalls, writes, closeCalls, opens >>

\* v2 wrapper, lines 581-591
resolve_v2 ==
    /\ pc = "resolve" /\ ver = "v2"
    /\ LET mi == modes[mode] IN
       IF mi.input.kind = "none"
       THEN InputIs(<< >>, "gen") /\ reads' = reads
       ELSE IF mi.input.kind = "callable"
       THEN /\ reads' = reads
            /\ \E ls \in InLinkLists : InputIs(CallableRecords(ver, ls), "loop")
       ELSE IF url # None
       THEN /\ reads' = reads
            /\ IF mi.document_input = None
               THEN Fatal("TypeError") /\ input_list' = input_list
               ELSE InputIs(<< scraped(Doc(mi.document_input, url), "restaurant_details") >>,
                            "loop")
       ELSE /\ reads' = reads \cup {mi.input.file}
            /\ IF files[mi.input.file].exists
               THEN InputIs(files[mi.input.file].data, "loop")
               ELSE /\ Fatal(IF Handle("OSError") THEN "OSError" ELSE "TypeError")
                    /\ input_list' = input_list
    /\ UNCHANGED cfgVars
    /\ UNCHANGED auxVars
    /\ UNCHANGED << driver, idx, files, wrapperOutcome, outcome,
                    calls, yields, hookCalls, writes, closeCalls, opens >>

\* v3 wrapper, lines 166-172
resolve_v3 ==
    /\ pc = "resolve" /\ ver = "v3"
    /\ LET source == get_auto_input(modes, mode) IN
       IF url # None
       THEN /\ reads' = reads
            /\ InputIs(<< [document |-> [link |-> url]] >>, "loop")
       ELSE IF source.raised # "none"
       THEN reads' = reads /\ Fatal(source.raised) /\ input_list' = input_list
       ELSE IF source.value.kind = "callable"
       THEN /\ reads' = reads
            /\ \E ls \in InLinkLists :
                  InputIs(CallableRecords(ver, ls), IF ls # << >> THEN "loop" ELSE "gen")
       ELSE IF source.value.kind = "file"
       THEN /\ reads' = reads \cup {source.value.file}
            /\ IF files[source.value.file].exists
               THEN InputIs(files[source.value.file].data,
                            IF files[source.value.file].data # << >> THEN "loop" ELSE "gen")
               ELSE IF Handle("OSError")
                    THEN Fatal("OSError") /\ input_list' = input_list
                    ELSE /\ fatal' = fatal \cup {"OSError"}
                         /\ input_list' = << >>
                         /\ pc' = "gen"
                         /\ UNCHANGED << results, status, exc >>
       ELSE InputIs(<< >>, "gen") /\ reads' = reads
    /\ UNCHANGED cfgVars
    /\ UNCHANGED auxVars
    /\ UNCHANGED << driver, idx, files, wrapperOutcome, outcome,
                    calls, yields, hookCalls, writes, closeCalls, opens >>

\* what the handler gets when create_document failed and the failure was swallowed:
\* None (rambot: the except clause falls through) or the ModeResult that the errors
\* decorator returned
NoneArg == [type |-> "NoneType", link |-> None]
ErrorResultArg == [type |-> "ModeResult", link |-> None]

\* create_document failed and the failure is re-raised into the wrapper
Rejected(doc) == doc.type = "ValidationError" /\ Handle("ValidationError")

\* the value create_document hands back: the document, or the stand-in on a
\* swallowed failure
Built(doc, standin) == IF doc.type = "ValidationError" THEN standin ELSE doc

\* a plausible bug: the delay is never taken
waitSkipped(w) == w

\* Scraper.wait(1, 2): the blocking delay; w counts the delays taken
wait(w) == w + 1

\* Scraper.driver (property) read by a handler: when self._driver is None the read
\* calls open()/open_browser(); lazy says that this happened and that the Driver was
\* built (FALSE: the handler did not read the property, or the constructor raised)
driver_get(lazy) ==
    IF lazy /\ driver = None
    THEN driver' = "open" /\ opens' = opens + 1 /\ handles' = handles + 1
    ELSE UNCHANGED << driver, opens, handles >>

\* one handler invocation is recorded: its argument and what it did
Invoked(arg, y) ==
    /\ calls' = Append(calls, arg)
    /\ yields' = Append(yields, y)
    /\ \E lazy \in (IF driver = None /\ y.kind # "arity" THEN BOOLEAN ELSE {FALSE}) :
          driver_get(lazy)

\* the item is done (result folded or item skipped): wait(1, 2), then the next record
ItemDone(rs) ==
    /\ results' = rs
    /\ idx' = idx + 1
    /\ waits' = wait(waits)
    /\ pc' = "loop"
    /\ UNCHANGED << status, exc, fatal >>

\* v1 wrapper, lines 283-300: one pass of the for loop
item_v1 ==
    /\ pc = "loop" /\ ver = "v1" /\ idx < Len(input_list)
    /\ LET mi == modes[mode]
           d == input_list[idx + 1]
       IN  IF mi.document_input = None
           THEN /\ Fatal("ValueError")
                /\ UNCHANGED << calls, yields, idx, waits, driver, opens, handles >>
           ELSE IF Rejected(create_document_v1(d, mi.document_input))
           THEN /\ Fatal("ValidationError")
                /\ UNCHANGED << calls, yields, idx, waits, driver, opens, handles >>
           ELSE \E y \in Yields(mi.document_output) :
                   /\ Invoked(Built(create_document_v1(d, mi.document_input), ErrorResultArg), y)
                   /\ IF y.kind = "raise" THEN Fatal("HandlerError") /\ UNCHANGED << idx, waits >>
                      ELSE IF y.kind = "junk" THEN Fatal("TypeError") /\ UNCHANGED << idx, waits >>
                      ELSE ItemDone(ListExtend(results, y.docs))
    /\ UNCHANGED cfgVars
    /\ UNCHANGED << proxy, session >>
    /\ UNCHANGED << input_list, files, wrapperOutcome, outcome,
                    hookCalls, writes, reads, closeCalls >>

\* v2 wrapper, lines 593-611: one pass of the for loop
item_v2 ==
    /\ pc = "loop" /\ ver = "v2" /\ idx < Len(input_list)
    /\ LET mi == modes[mode]
           d == input_list[idx + 1]
       IN  IF mi.document_input = None
           THEN /\ Fatal("UnboundLocalError")
                /\ UNCHANGED << calls, yields, idx, waits, driver, opens, handles >>
           ELSE IF Rejected(create_document_v23(d, mi.document_input))
           THEN /\ Fatal("ValidationError")
                /\ UNCHANGED << calls, yields, idx, waits, driver, opens, handles >>
           ELSE \E y \in Yields(mi.document_output) :
                   /\ Invoked(Built(create_document_v23(d, mi.document_input), NoneArg), y)
                   /\ IF y.kind \in {"raise", "junk"}
                      THEN ItemDone(results)
                      ELSE ItemDone(SetUpdate(results, y.docs))
    /\ UNCHANGED cfgVars
    /\ UNCHANGED << proxy, session >>
    /\ UNCHANGED << input_list, files, wrapperOutcome, outcome,
                    hookCalls, writes, reads, closeCalls >>

\* v3 wrapper, lines 173-180: one pass of the for loop
item_v3 ==
    /\ pc = "loop" /\ ver = "v3" /\ idx < Len(input_list)
    /\ LET mi == modes[mode]
           d == input_list[idx + 1]
           t == IF mi.document_input # None THEN mi.document_input ELSE "Document"
           doc == Built(create_document_v23(d, t), NoneArg)
       IN  IF Rejected(create_document_v23(d, t))
           THEN /\ Fatal("ValidationError")
                /\ UNCHANGED << calls, yields, idx, waits, driver, opens, handles >>
           ELSE IF ~TakesDoc(mi)
           THEN Invoked(doc, Y("arity", << >>)) /\ ItemDone(results)
           ELSE \E y \in Yields(mi.document_output) :
                   /\ Invoked(doc, y)
                   /\ IF y.kind = "raise"
                      THEN ItemDone(results)
                      ELSE ItemDone(SetUpdate(results, y.docs))
    /\ UNCHANGED cfgVars
    /\ UNCHANGED << proxy, session >>
    /\ UNCHANGED << input_list, files, wrapperOutcome, outcome,
                    hookCalls, writes, reads, closeCalls >>

\* the for loop is exhausted; v1 then builds ModeResult(SUCCESS) (line 309)
body_end ==
    /\ pc = "loop" /\ idx = Len(input_list)
    /\ status' = IF ver = "v1" THEN ModeResult("SUCCESS", None) ELSE status
    /\ pc' = "hook"
    /\ UNCHANGED cfgVars
    /\ UNCHANGED auxVars
    /\ UNCHANGED << exc, driver, input_list, idx, results, files, wrapperOutcome, outcome,
                    calls, yields, hookCalls, writes, reads, closeCalls, opens, fatal >>

\* the generator call is done without a stage-level exception
GenDone(rs) ==
    /\ results' = rs
    /\ status' = IF ver = "v1" THEN ModeResult("SUCCESS", None) ELSE status
    /\ pc' = "hook"
    /\ UNCHANGED << exc, fatal >>

\* v1 wrapper, lines 302-309: results = method(); list-ify; type check
gen_v1 ==
    /\ pc = "gen" /\ ver = "v1"
    /\ LET mi == modes[mode] IN
       IF TakesDoc(mi)
       THEN Invoked(NoArg, Y("arity", << >>)) /\ Fatal("TypeError")
       ELSE \E y \in Yields(mi.document_output) :
               /\ Invoked(NoArg, y)
               /\ IF y.kind = "raise" THEN Fatal("HandlerError")
                  ELSE IF y.kind \in {"none", "junk"} THEN Fatal("TypeError")
                  ELSE GenDone(y.docs)
    /\ UNCHANGED cfgVars
    /\ UNCHANGED << waits, proxy, session >>
    /\ UNCHANGED << input_list, idx, files, wrapperOutcome, outcome,
                    hookCalls, writes, reads, closeCalls >>

\* v2 wrapper, lines 613-622: result = method(); set-ify; type check; update
gen_v2 ==
    /\ pc = "gen" /\ ver = "v2"
    /\ LET mi == modes[mode] IN
       IF TakesDoc(mi)
       THEN Invoked(NoArg, Y("arity", << >>)) /\ Fatal("TypeError")
       ELSE \E y \in Yields(mi.document_output) :
               /\ Invoked(NoArg, y)
               /\ IF y.kind = "raise" THEN Fatal("HandlerError")
                  ELSE IF y.kind \in {"none", "junk"} THEN Fatal("TypeError")
                  ELSE GenDone(SetUpdate(results, y.docs))
    /\ UNCHANGED cfgVars
    /\ UNCHANGED << waits, proxy, session >>
    /\ UNCHANGED << input_list, idx, files, wrapperOutcome, outcome,
                    hookCalls, writes, reads, closeCalls >>

\* v3 wrapper, lines 181-183: res = method(); if res: results.update(...)
gen_v3 ==
    /\ pc = "gen" /\ ver = "v3"
    /\ LET mi == modes[mode] IN
       IF TakesDoc(mi)
       THEN Invoked(NoArg, Y("arity", << >>)) /\ Fatal("TypeError")
       ELSE \E y \in Yields(mi.document_output) :
               /\ Invoked(NoArg, y)
               /\ IF y.kind = "raise" THEN Fatal("HandlerError")
                  ELSE GenDone(SetUpdate(results, y.docs))
    /\ UNCHANGED cfgVars
    /\ UNCHANGED << waits, proxy, session >>
    /\ UNCHANGED << input_list, idx, files, wrapperOutcome, outcome,
                    hookCalls, writes, reads, closeCalls >>

\* an exception raised inside the finally block leaves the wrapper at once
RaisedInFinally(k) ==
    /\ wrapperOutcome' = Raised(k)
    /\ fatal' = fatal \cup {k}
    /\ pc' = "runexit"

\* v1 has no save hook: finally goes straight to self.save
hook_v1 ==
    /\ pc = "hook" /\ ver = "v1"
    /\ pc' = "save"
    /\ UNCHANGED cfgVars
    /\ UNCHANGED auxVars
    /\ UNCHANGED << exc, driver, input_list, idx, results, status, files, wrapperOutcome,
                    outcome, calls, yields, hookCalls, writes, reads, closeCalls, opens,
                    fatal >>

\* the save hook is called with list(results); h says whether it raises
HookStep(lst, h) ==
    /\ hookCalls' = Append(hookCalls, lst)
    /\ IF h = "raises"
       THEN RaisedInFinally("HookError")
       ELSE pc' = "save" /\ UNCHANGED << wrapperOutcome, fatal >>

\* v2 wrapper, lines 626-628: if save is not None: save(self, list(results))
hook_v2 ==
    /\ pc = "hook" /\ ver = "v2"
    /\ \E lst \in Perms(results) :
          /\ results' = lst
          /\ IF modes[mode].save # None
             THEN \E h \in {"ok", "raises"} : HookStep(lst, h)
             ELSE pc' = "save" /\ UNCHANGED << hookCalls, wrapperOutcome, fatal >>
    /\ UNCHANGED cfgVars
    /\ UNCHANGED auxVars
    /\ UNCHANGED << exc, driver, input_list, idx, status, files, outcome,
                    calls, yields, writes, reads, closeCalls, opens >>

\* v3 wrapper, lines 186-187: if results: if mode_info.save: save(self, list(results))
hook_v3 ==
    /\ pc = "hook" /\ ver = "v3"
    /\ \E lst \in Perms(results) :
          /\ results' = lst
          /\ IF results # << >> /\ modes[mode].save # None
             THEN \E h \in {"ok", "raises"} : HookStep(lst, h)
             ELSE pc' = "save" /\ UNCHANGED << hookCalls, wrapperOutcome, fatal >>
    /\ UNCHANGED cfgVars
    /\ UNCHANGED auxVars
    /\ UNCHANGED << exc, driver, input_list, idx, status, files, outcome,
                    calls, yields, writes, reads, closeCalls, opens >>

\* Scraper.save -> Scraper.write of artifact f for the stage; w says whether the
\* write fails.  A failure is re-raised (leaving finally) or swallowed, by Handle.
SaveStep(f, w) ==
    IF w = "ok"
    THEN /\ files' = [files EXCEPT ![mode] = f]
         /\ writes' = Append(writes, [data |-> results, status |-> status])
         /\ pc' = "close"
         /\ UNCHANGED << wrapperOutcome, fatal >>
    ELSE /\ UNCHANGED << files, writes >>
         /\ IF Handle("OSError")
            THEN RaisedInFinally("OSError")
            ELSE /\ fatal' = fatal \cup {"OSError"}
                 /\ pc' = "close"
                 /\ UNCHANGED wrapperOutcome

\* v1 wrapper, line 317: self.save(links=results, mode_result=mode_result)
save_v1 ==
    /\ pc = "save" /\ ver = "v1"
    /\ \E w \in {"ok", "fails"} : SaveStep(write_v1(results, status), w)
    /\ UNCHANGED cfgVars
    /\ UNCHANGED auxVars
    /\ UNCHANGED << exc, driver, input_list, idx, results, status, outcome,
                    calls, yields, hookCalls, reads, closeCalls, opens >>

\* v2 wrapper, line 630: self.save(links=[ScrapedDocument.from_document(...) ...])
save_v2 ==
    /\ pc = "save" /\ ver = "v2"
    /\ \E w \in {"ok", "fails"} : SaveStep(write_v23(results, mode), w)
    /\ UNCHANGED cfgVars
    /\ UNCHANGED auxVars
    /\ UNCHANGED << exc, driver, input_list, idx, results, status, outcome,
                    calls, yields, hookCalls, reads, closeCalls, opens >>

\* v3 wrapper, lines 186-188: only if results; from_document of a non-Document raises
save_v3 ==
    /\ pc = "save" /\ ver = "v3"
    /\ IF results = << >>
       THEN pc' = "close" /\ UNCHANGED << files, writes, wrapperOutcome, fatal >>
       ELSE IF \E r \in Range(results) : ~IsDocument(r)
       THEN RaisedInFinally("TypeError") /\ UNCHANGED << files, writes >>
       ELSE \E w \in {"ok", "fails"} : SaveStep(write_v23(results, mode), w)
    /\ UNCHANGED cfgVars
    /\ UNCHANGED auxVars
    /\ UNCHANGED << exc, driver, input_list, idx, results, status, outcome,
                    calls, yields, hookCalls, reads, closeCalls, opens >>

\* Scraper.close / Scraper.close_browser
close_browser(d) == None

\* end of the finally block: close the browser, then return list(results); the
\* return discards an exception still in flight
close_return ==
    /\ pc = "close"
    /\ closeCalls' = closeCalls + 1
    /\ driver' = close_browser(driver)
    /\ handles' = IF driver # None THEN handles - 1 ELSE handles
    /\ wrapperOutcome' = Returned(results)
    /\ exc' = "none"
    /\ pc' = "runexit"
    /\ UNCHANGED cfgVars
    /\ UNCHANGED << waits, proxy, session >>
    /\ UNCHANGED << input_list, idx, results, status, files, outcome,
                    calls, yields, hookCalls, writes, reads, opens, fatal >>

Next ==
    \/ Setup
    \/ run_v1 \/ run_v23
    \/ wrapper_validate
    \/ open_v1 \/ open_browser_v23
    \/ resolve_v1 \/ resolve_v2 \/ resolve_v3
    \/ item_v1 \/ item_v2 \/ item_v3
    \/ body_end
    \/ gen_v1 \/ gen_v2 \/ gen_v3
    \/ hook_v1 \/ hook_v2 \/ hook_v3
    \/ save_v1 \/ save_v2 \/ save_v3
    \/ close_return
    \/ run_exit_v1 \/ run_exit_v23

Spec == Init /\ [][Next]_vars

----------------------------------------------------------------------------
(* Writing an artifact and reading it back: Scraper.save / write / read /
   create_document, a producer run's persist step followed by a consumer run's
   input decoding.  json.dump and json.load keep strings, integers and the
   list-of-objects structure as they are. *)

Restaurants ==
    { [type |-> "Restaurant", link |-> l, name |-> n, reviews |-> r] :
         l \in OutLinks, n \in {"n1", "n2"}, r \in 0..1 }

\* the documents of one class a producer can hand to save
DocsOf(t) == IF t = "Restaurant" THEN Restaurants ELSE OutDocs(t)

SeqsOf(S, n) == UNION { [1..k -> S] : k \in 0..n }

\* the producer "cities" declares output type t, the consumer "listing" reads
\* cities.json and declares input type tin
RoundTripProgram(t, tin) ==
    << Gen("cities", t, None), Cons("listing", FileInput("cities"), tin, "Listing", None) >>

InitRoundTrip ==
    /\ \E t \in {"Document", "Restaurant"}, tin \in {"Document", "Restaurant"} :
          /\ regLog = RoundTripProgram(t, tin)
          /\ modes = Declare(EmptyModes, RoundTripProgram(t, tin))
          /\ results \in SeqsOf(DocsOf(t), MaxDocs)
    /\ lastOp = NoOp
    /\ ver \in Versions
    /\ mode = "cities"
    /\ url = None
    /\ mustRaise = {}
    /\ files = [n \in Names |-> NoFile]
    /\ pc = "rt_save"
    /\ exc = "none" /\ driver = None /\ input_list = << >> /\ idx = 0
    /\ status = ModeResult("SUCCESS", None)
    /\ wrapperOutcome = NoOutcome /\ outcome = NoOutcome
    /\ calls = << >> /\ yields = << >> /\ hookCalls = << >> /\ writes = << >>
    /\ reads = {} /\ closeCalls = 0 /\ opens = 0 /\ fatal = {}
    /\ config = ScraperConfig(DefaultConfig)
    /\ waits = 0 /\ handles = 0 /\ proxy = "off" /\ session = << >>

\* the producer's Scraper.save(results): the artifact of the stage is written
rt_save ==
    /\ pc = "rt_save"
    /\ files' = [files EXCEPT ![mode] = IF ver = "v1" THEN write_v1(results, status)
                                                      ELSE write_v23(results, mode)]
    /\ writes' = Append(writes, [data |-> results, status |-> status])
    /\ mode' = "listing"
    /\ pc' = "rt_read"
    /\ UNCHANGED << modes, regLog, lastOp, ver, url, mustRaise, config >>
    /\ UNCHANGED auxVars
    /\ UNCHANGED << exc, driver, input_list, idx, results, status, wrapperOutcome, outcome,
                    calls, yields, hookCalls, reads, closeCalls, opens, fatal >>

\* the consumer's Scraper.read(filename): the decoded records
rt_read ==
    /\ pc = "rt_read"
    /\ reads' = reads \cup {modes[mode].input.file}
    /\ input_list' = files[modes[mode].input.file].data
    /\ pc' = "rt_create"
    /\ UNCHANGED cfgVars
    /\ UNCHANGED auxVars
    /\ UNCHANGED << exc, driver, idx, results, status, files, wrapperOutcome, outcome,
                    calls, yields, hookCalls, writes, closeCalls, opens, fatal >>

\* the consumer's Scraper.create_document for the next record, as the fan-out loop
\* calls it; calls collects the documents built
rt_create ==
    /\ pc = "rt_create" /\ idx < Len(input_list)
    /\ calls' = Append(calls,
                       IF ver = "v1"
                       THEN create_document_v1(input_list[idx + 1], modes[mode].document_input)
                       ELSE create_document_v23(input_list[idx + 1], modes[mode].document_input))
    /\ idx' = idx + 1
    /\ UNCHANGED cfgVars
    /\ UNCHANGED auxVars
    /\ UNCHANGED << pc, exc, driver, input_list, results, status, files, wrapperOutcome,
                    outcome, yields, hookCalls, writes, reads, closeCalls, opens, fatal >>

NextRoundTrip == rt_save \/ rt_read \/ rt_create

SpecRoundTrip == InitRoundTrip /\ [][NextRoundTrip]_vars

----------------------------------------------------------------------------
(* Constructing configurations *)

WindowSizes == {-1, 639, 640, 1920}
Delays == 0..MaxDelay
Langs == UNION { [1..k -> Chars] : k \in 0..MaxLang }

\* no ScraperConfig(...) call has been made yet
NoConfig == [args |-> DefaultConfig, raised |-> "uncalled", value |-> << >>]

InitConfig ==
    /\ modes = EmptyModes /\ regLog = << >> /\ lastOp = NoOp
    /\ ver = "none" /\ mode = None /\ url = None /\ mustRaise = {}
    /\ pc = "config"
    /\ exc = "none" /\ driver = None /\ input_list = << >> /\ idx = 0
    /\ results = << >> /\ status = NoStatus
    /\ files = [n \in Names |-> Missing]
    /\ wrapperOutcome = NoOutcome /\ outcome = NoOutcome
    /\ calls = << >> /\ yields = << >> /\ hookCalls = << >> /\ writes = << >>
    /\ reads = {} /\ closeCalls = 0 /\ opens = 0 /\ fatal = {}
    /\ config = NoConfig
    /\ waits = 0 /\ handles = 0 /\ proxy = "off" /\ session = << >>

\* a ScraperConfig(...) call with the given keyword arguments
Construct(a) ==
    /\ pc = "config"
    /\ config' = ScraperConfig(a)
    /\ UNCHANGED auxVars
    /\ UNCHANGED << modes, regLog, lastOp, ver, mode, url, mustRaise, pc, exc, driver,
                    input_list, idx, results, status, files, wrapperOutcome, outcome,
                    calls, yields, hookCalls, writes, reads, closeCalls, opens, fatal >>

NextConfig ==
    \E w \in WindowSizes, mn \in Delays, mx \in Delays, lg \in Langs :
       Construct(ConfigArgs(w, mn, mx, lg))

SpecConfig == InitConfig /\ [][NextConfig]_vars

----------------------------------------------------------------------------
(* The errors decorator: src/scraper/decorators.py *)

\* exception classes and the direct base class of each
Classes == { "BaseException", "Exception", "KeyboardInterrupt", "OSError",
             "FileNotFoundError", "ValueError", "DriverError", "OperationalError" }

Bases == [c \in Classes |->
            CASE c = "BaseException" -> None
              [] c \in {"Exception", "KeyboardInterrupt"} -> "BaseException"
              [] c = "FileNotFoundError" -> "OSError"
              [] OTHER -> "Exception"]

\* isinstance(e, t) for an exception of class e
RECURSIVE isinstance(_, _)
isinstance(e, t) == e = t \/ (Bases[e] # None /\ isinstance(Bases[e], t))

\* the methods of Scraper decorated with @errors(**ERRORS_CONFIG)
Methods == {"open", "close", "save", "write", "read", "create_document"}

\* what a decorated method returns when nothing fails (not a ModeResult)
FuncValue == [status |-> "value", message |-> << >>]

\* what the decorated method does when called: it returns, or raises one of these
FuncBodies ==
    { Returned(FuncValue) } \cup
    { Raised(k) : k \in {"KeyboardInterrupt", "OSError", "FileNotFoundError",
                         "ValueError", "DriverError"} }

\* the lists given as must_raise (the default is [Exception])
MustRaiseLists == SUBSET {"Exception", "OSError", "ValueError"}

\* a plausible bug: must_raise is matched by the exact class of the exception
errorsExactType(resolves, must_raise, name, body) ==
    IF ~resolves THEN Raised("UnboundLocalError")
    ELSE IF body.kind = "return" THEN body
    ELSE IF ~isinstance(body.exc, "Exception") THEN body
    ELSE IF body.exc \in must_raise THEN Raised(body.exc)
    ELSE Returned(ModeResult("ERROR", << "Error in", name, body.exc >>))

\* errors(...)(func).wrapper: the outcome of one call of the decorated method name
\* whose body does `body`.  resolves = FALSE: must_raise is a callable that raises
\* on self (line 42, inside the try): the except clause then reads the unbound
\* effective_create_logs (line 47) and the method is never called.
errors(resolves, must_raise, name, body) ==
    IF ~resolves THEN Raised("UnboundLocalError")
    ELSE IF body.kind = "return" THEN body
    ELSE IF ~isinstance(body.exc, "Exception") THEN body
    ELSE IF \E t \in must_raise : isinstance(body.exc, t) THEN Raised(body.exc)
    ELSE Returned(ModeResult("ERROR", << "Error in", name, body.exc >>))

InitErrors ==
    /\ modes = EmptyModes /\ regLog = << >> /\ lastOp = NoOp
    /\ ver = "none" /\ mode = None /\ url = None
    /\ mustRaise \in MustRaiseLists
    /\ pc = "errors"
    /\ exc = "none" /\ driver = None /\ input_list = << >> /\ idx = 0
    /\ results = << >> /\ status = NoStatus
    /\ files = [n \in Names |-> Missing]
    /\ wrapperOutcome = NoOutcome /\ outcome = NoOutcome
    /\ calls = << >> /\ yields = << >> /\ hookCalls = << >> /\ writes = << >>
    /\ reads = {} /\ closeCalls = 0 /\ opens = 0 /\ fatal = {}
    /\ config = ScraperConfig(DefaultConfig)
    /\ waits = 0 /\ handles = 0 /\ proxy = "off" /\ session = << >>

\* one call of a decorated method; lastOp keeps the call and outcome keeps its result
CallDecorated(resolves, name, body) ==
    /\ pc = "errors"
    /\ lastOp' = [op |-> name, arg |-> body, raised |-> body.exc, value |-> resolves]
    /\ outcome' = errors(resolves, mustRaise, name, body)
    /\ UNCHANGED << modes, regLog, ver, mode, url, mustRaise, pc, exc, driver,
                    input_list, idx, results, status, files, wrapperOutcome,
                    calls, yields, hookCalls, writes, reads, closeCalls, opens, fatal,
                    config >>
    /\ UNCHANGED auxVars

NextErrors ==
    \E resolves \in BOOLEAN, name \in Methods, body \in FuncBodies :
       CallDecorated(resolves, name, body)

SpecErrors == InitErrors /\ [][NextErrors]_vars

----------------------------------------------------------------------------
(* The bind decorators: src/scraper/scraper.py 236-256 ("v1") and
   src/rambot/scraper/scraper.py 476-524 ("v2"), both calling
   ScraperModeManager.register of src/scraper/models.py with positional arguments.
   Booleans are written "True" / "False". *)

\* the parameters of register, in the order of its signature, and their defaults
RegisterParams ==
    << "name", "func", "input", "save", "document_input", "save_logs", "logs_output",
       "path" >>

RegisterDefaults ==
    [ name |-> None, func |-> None, input |-> None, save |-> None,
      document_input |-> None, save_logs |-> "False", logs_output |-> None, path |-> "." ]

\* the keyword arguments register sees for the positional call register(*vals)
Positional(vals) ==
    [ p \in Range(RegisterParams) |->
        LET i == CHOOSE k \in 1..Len(RegisterParams) : RegisterParams[k] = p
        IN  IF i <= Len(vals) THEN vals[i] ELSE RegisterDefaults[p] ]

\* the values by type: callables (a class is callable too), Document classes,
\* strings and booleans
DocClasses == {"City"}
Callables == {"fn", "hook", "producer"} \cup DocClasses
Strs == {"cities.json", "run.log", ".", "logs"}
Bools == {"True", "False"}

\* Mode(**a) passes validation: each value fits the annotation of its field
\* (models.py 56-65)
ModeValid(a) ==
    /\ a.func \in {None} \cup Callables
    /\ a.input \in {None} \cup Strs \cup Callables
    /\ a.save \in {None} \cup Callables
    /\ a.document_input \in {None} \cup DocClasses
    /\ a.save_logs \in Bools
    /\ a.logs_output \in {None} \cup Strs
    /\ a.path \in Strs

\* register(**a) with the construction of the Mode: a name already present is left
\* alone, a Mode that fails validation raises and stores nothing
register_call(M, a) ==
    IF a.name \in DOMAIN M THEN [raised |-> "none", modes |-> M]
    ELSE IF ~ModeValid(a) THEN [raised |-> "ValidationError", modes |-> M]
    ELSE [raised |-> "none", modes |-> register(M, a)]

\* the arguments given to bind (save exists in v2 only; v2 calls the last three
\* enable_file_logging, log_file_name and log_directory)
BindArgs(v) ==
    [ mode : Names,
      input : {None, "cities.json", "producer"},
      save : IF v = "v1" THEN {None} ELSE {None, "hook"},
      document_input : {None} \cup DocClasses,
      save_logs : Bools,
      logs_output : {None, "run.log"},
      path : {".", "logs"} ]

\* v1 bind.decorator, lines 246-254: the register call it makes
bind_v1(p, func) ==
    Positional(<< p.mode, func, p.input, p.document_input, p.save_logs, p.logs_output,
                  p.path >>)

\* v2 bind.decorator, lines 513-522: the register call it makes
bind_v2(p, func) ==
    Positional(<< p.mode, func, p.input, p.save, p.document_input, p.save_logs,
                  p.logs_output, p.path >>)

InitBind ==
    /\ modes = EmptyModes /\ regLog = << >> /\ lastOp = NoOp
    /\ ver \in {"v1", "v2"}
    /\ mode = None /\ url = None /\ mustRaise = {}
    /\ pc = "bind"
    /\ exc = "none" /\ driver = None /\ input_list = << >> /\ idx = 0
    /\ results = << >> /\ status = NoStatus
    /\ files = [n \in Names |-> Missing]
    /\ wrapperOutcome = NoOutcome /\ outcome = NoOutcome
    /\ calls = << >> /\ yields = << >> /\ hookCalls = << >> /\ writes = << >>
    /\ reads = {} /\ closeCalls = 0 /\ opens = 0 /\ fatal = {}
    /\ config = ScraperConfig(DefaultConfig)
    /\ waits = 0 /\ handles = 0 /\ proxy = "off" /\ session = << >>

\* @bind(**p) applied to the function func: the register call a, then return func
Decorated(p, func, a) ==
    /\ modes' = register_call(modes, a).modes
    /\ regLog' = Append(regLog, a)
    /\ lastOp' = [op |-> "bind", arg |-> p, raised |-> register_call(modes, a).raised,
                  value |-> IF register_call(modes, a).raised = "none" THEN func ELSE None]
    /\ pc' = "bound"
    /\ UNCHANGED << ver, mode, url, mustRaise, exc, driver,
                    input_list, idx, results, status, files, wrapperOutcome, outcome,
                    calls, yields, hookCalls, writes, reads, closeCalls, opens, fatal,
                    config >>
    /\ UNCHANGED auxVars

Decorate_v1(p) ==
    /\ pc = "bind" /\ ver = "v1"
    /\ Decorated(p, "fn", bind_v1(p, "fn") @@ [document_output |-> None])

Decorate_v2(p) ==
    /\ pc = "bind" /\ ver = "v2"
    /\ Decorated(p, "fn", bind_v2(p, "fn") @@ [document_output |-> None])

NextBind ==
    \/ \E p \in BindArgs("v1") : Decorate_v1(p)
    \/ \E p \in BindArgs("v2") : Decorate_v2(p)

SpecBind == InitBind /\ [][NextBind]_vars

----------------------------------------------------------------------------
(* DatabaseConnection.session_scope: src/database/connection.py 59-80 *)

\* how the body of a `with session_scope()` block ends: it completes, or it raises
BodyEnds == {"ok", "ValueError", "OSError", "FileNotFoundError", "KeyboardInterrupt"}

\* what a call of session.commit / rollback / close does: it returns, or it raises
SessionOps == {"ok", "OperationalError"}

\* a plausible bug: close is called on the path without exception only (no finally)
session_scopeNoFinally(b, c, r, cl) ==
    IF b = "ok" /\ c = "ok"
    THEN [calls |-> << "commit", "close" >>, exc |-> IF cl = "ok" THEN "none" ELSE cl]
    ELSE IF b # "ok" /\ ~isinstance(b, "Exception")
    THEN [calls |-> << >>, exc |-> b]
    ELSE [calls |-> (IF b = "ok" THEN << "commit" >> ELSE << >>) \o << "rollback" >>,
          exc |-> IF r # "ok" THEN r ELSE IF b # "ok" THEN b ELSE c]

\* session_scope after the yield: the calls made on the session, in order, and the
\* exception that leaves the with block ("none" when there is none).  b is how the
\* body ended, c / r / cl what commit / rollback / close do when called.
session_scope(b, c, r, cl) ==
    LET try == IF b # "ok" THEN [calls |-> << >>, exc |-> b]
               ELSE [calls |-> << "commit" >>, exc |-> IF c = "ok" THEN "none" ELSE c]
        except == IF try.exc = "none" \/ ~isinstance(try.exc, "Exception") THEN try
                  ELSE [calls |-> try.calls \o << "rollback" >>,
                        exc |-> IF r = "ok" THEN try.exc ELSE r]
    IN  [calls |-> except.calls \o << "close" >>,
         exc |-> IF cl = "ok" THEN except.exc ELSE cl]

InitSession ==
    /\ modes = EmptyModes /\ regLog = << >> /\ lastOp = NoOp
    /\ ver = "none" /\ mode = None /\ url = None /\ mustRaise = {}
    /\ pc = "session"
    /\ exc = "none" /\ driver = None /\ input_list = << >> /\ idx = 0
    /\ results = << >> /\ status = NoStatus
    /\ files = [n \in Names |-> Missing]
    /\ wrapperOutcome = NoOutcome /\ outcome = NoOutcome
    /\ calls = << >> /\ yields = << >> /\ hookCalls = << >> /\ writes = << >>
    /\ reads = {} /\ closeCalls = 0 /\ opens = 0 /\ fatal = {}
    /\ config = ScraperConfig(DefaultConfig)
    /\ waits = 0 /\ handles = 0 /\ proxy = "off" /\ session = << >>

\* the variables no step of a with block changes
sessionFrame ==
    << modes, regLog, ver, mode, url, mustRaise, exc, driver, input_list, idx, results,
       status, files, wrapperOutcome, calls, yields, hookCalls, writes, reads,
       closeCalls, opens, fatal, config, waits, handles, proxy >>

\* line 72 and the yield: the session is created and handed to the body
session_enter ==
    /\ pc = "session"
    /\ session' = << "Session" >>
    /\ pc' = "body"
    /\ UNCHANGED << lastOp, outcome >>
    /\ UNCHANGED sessionFrame

\* the body uses the session (session.add)
body_add ==
    /\ pc = "body" /\ Len(session) <= MaxBody
    /\ session' = Append(session, "add")
    /\ UNCHANGED << pc, lastOp, outcome >>
    /\ UNCHANGED sessionFrame

\* the body ends and the generator runs from the yield to its end (lines 75-80)
session_exit(b, c, r, cl) ==
    /\ pc = "body"
    /\ session' = session \o session_scope(b, c, r, cl).calls
    /\ lastOp' = [op |-> "session_scope", arg |-> << b, c, r, cl >>,
                  raised |-> session_scope(b, c, r, cl).exc, value |-> None]
    /\ outcome' = IF session_scope(b, c, r, cl).exc = "none"
                  THEN ReturnedNone
                  ELSE Raised(session_scope(b, c, r, cl).exc)
    /\ pc' = "closed"
    /\ UNCHANGED sessionFrame

NextSession ==
    \/ session_enter
    \/ body_add
    \/ \E b \in BodyEnds, c \in SessionOps, r \in SessionOps, cl \in SessionOps :
          session_exit(b, c, r, cl)

SpecSession == InitSession /\ [][NextSession]_vars

----------------------------------------------------------------------------
(* Properties *)

RegisteredNames == { regLog[i].name : i \in 1..Len(regLog) }

\* the arguments of the first register call made under name n
FirstCall(n) ==
    regLog[CHOOSE i \in 1..Len(regLog) :
              /\ regLog[i].name = n
              /\ \A j \in 1..(i - 1) : regLog[j].name # n]

NoDup(q) == \A i, j \in 1..Len(q) : i # j => q[i] # q[j]

Count(q, P(_)) == Cardinality({ i \in 1..Len(q) : P(q[i]) })

IsRaise(y) == y.kind = "raise"
IsDocs(y) == y.kind \in {"doc", "list"}

\* C1: on every exit path of a run the browser handle has been released when the run
\* ends: no run ends with its browser still open.
C1_BrowserReleasedOnEveryExit ==
    pc = "done" => driver # "open"

\* C2: a run never raises to its caller: after a stage-level failure (unregistered
\* stage, no/ambiguous producer, browser failed to open, generator output of the wrong
\* type) the run returns, with status ERROR and a message.
C2_RunNeverRaises ==
    (pc = "done" /\ fatal \cap {"ValueError", "NoProducerFound", "AmbiguousProducer",
                                "DriverError", "TypeError"} # {})
        => /\ outcome.kind = "return"
           /\ status.status = "ERROR"
           /\ status.message # None

\* C3: if the handler of a fan-out stage raises on exactly one of the n input records
\* (and nothing else fails), every record is still processed, the returned collection
\* contains the results of the other n-1 records and the status is not ERROR.
C3_ItemFailureIsolated ==
    (/\ pc = "done"
     /\ Len(input_list) >= 2
     /\ Count(yields, IsRaise) = 1
     /\ \A i \in 1..Len(yields) : IsRaise(yields[i]) \/ IsDocs(yields[i])
     /\ fatal \subseteq {"HandlerError"})
        => /\ Len(calls) = Len(input_list)
           /\ wrapperOutcome.kind = "return"
           /\ \A i \in 1..Len(yields) :
                 Range(yields[i].docs) \subseteq Range(wrapperOutcome.value)
           /\ status.status # "ERROR"

\* C4: for every stage name n and every reachable registry, validate(n) raises the
\* unknown-stage error iff no register call was made under n.
C4_ValidateIffUnregistered ==
    \A n \in AllNames : (validate(modes, n) = "ValueError") <=> (n \notin RegisteredNames)

C4_Witness ==
    /\ Len(regLog) >= 2
    /\ lastOp.op = "validate"
    /\ lastOp.raised = "ValueError"

\* C5: after any sequence of register calls the descriptor stored under a name is the
\* one built from the first register call under that name; a later call under the
\* same name changes nothing and raises no error; names are unique keys.
C5_FirstRegistrationWins ==
    /\ DOMAIN modes = RegisteredNames
    /\ \A n \in RegisteredNames : n \in DOMAIN modes /\ modes[n] = Mode(FirstCall(n))
    /\ lastOp.op = "register" => lastOp.raised = "none"

C5_Witness ==
    /\ lastOp.op = "register"
    /\ \E i, j \in 1..Len(regLog) :
          i < j /\ regLog[i].name = regLog[j].name /\ regLog[i] # regLog[j]

\* C6: get_mode(name) returns the descriptor registered under name when name is
\* registered and raises the unknown-stage error when it is absent; get_func returns
\* that descriptor's function, and neither returns anything for an unregistered name.
C6_GetReturnsRegisteredOrFails ==
    \A n \in AllNames :
       LET m == get_mode(modes, n)
           f == get_func(modes, n)
       IN  IF n \in RegisteredNames
           THEN /\ m.raised = "none"
                /\ m.value = Mode(FirstCall(n))
                /\ IF FirstCall(n).func = None
                   THEN f.raised = "ValueError"
                   ELSE f.raised = "none" /\ f.value = FirstCall(n).func
           ELSE m.raised = "ValueError" /\ f.raised = "ValueError"

C6_Witness ==
    /\ modes # EmptyModes
    /\ lastOp.op = "get_mode"
    /\ lastOp.raised = "ValueError"

\* C7: within one run, structurally identical output Documents yield exactly one entry
\* in the returned collection and in the persisted one.
C7_OutputsDeduplicated ==
    (pc = "done" /\ wrapperOutcome.kind = "return")
        => /\ NoDup(wrapperOutcome.value)
           /\ \A i \in 1..Len(writes) : NoDup(writes[i].data)

\* C8: a generator stage (no input, no input type; no URL override; nothing fails)
\* invokes its handler exactly once with no document argument, and a returned
\* Document or list of Documents yields a collection whose length is the number of
\* distinct Documents returned.
C8_GeneratorOnceAndLength ==
    (/\ pc = "done"
     /\ mode \in DOMAIN modes
     /\ ~TakesDoc(modes[mode])
     /\ url = None
     /\ fatal = {})
        => /\ calls = << NoArg >>
           /\ wrapperOutcome.kind = "return"
           /\ IsDocs(yields[1]) =>
                 Len(wrapperOutcome.value) = Cardinality(Range(yields[1].docs))

\* C9: every run that goes through the wrapper's finally block without a failing
\* write has written the artifact of its stage (possibly empty).
C9_ArtifactAlwaysWritten ==
    (pc = "done" /\ wrapperOutcome.kind = "return" /\ "OSError" \notin fatal)
        => /\ Len(writes) = 1
           /\ files[mode].exists

\* C10: with a URL override (and nothing failing), whatever the stage's configured
\* input, the input set is exactly one record built from the URL, no artifact is
\* read and the handler is invoked exactly once, with the document of that URL.
C10_UrlOverride ==
    (pc = "done" /\ url # None /\ wrapperOutcome.kind = "return" /\ fatal = {})
        => /\ Len(input_list) = 1
           /\ reads = {}
           /\ Len(calls) = 1
           /\ calls[1].link = url

\* the wrapper got as far as input resolution (the browser step did not abort the run)
Resolved ==
    /\ pc \in {"loop", "gen", "hook", "save", "close", "runexit", "done"}
    /\ opens > 0
    /\ ~("DriverError" \in fatal /\ Handle("DriverError"))

\* the run is an auto-resolving consumer: no URL override, input unset, input type set
AutoConsumer ==
    /\ ver = "v3" /\ url = None
    /\ mode \in DOMAIN modes
    /\ modes[mode].input.kind = "none"
    /\ modes[mode].document_input # None

\* the registered stages whose declared output type is the run's declared input type
Producers == { n \in DOMAIN modes : modes[n].document_output = modes[mode].document_input }

\* the run ended in failure k: it raised k, or it returned status ERROR
FailedWith(k) ==
    \/ outcome.kind = "raise" /\ outcome.exc = k
    \/ status.status = "ERROR" /\ status.message = k

\* C11: a consumer with input type T and no explicit input scans all registered stages
\* for output type exactly T: with no match the run fails with NoProducerFound, with
\* one match that stage's artifact is the input source, with several matches the run
\* fails with AmbiguousProducer; a failed resolution reads no artifact and invokes no
\* handler.
C11_AutoResolution ==
    (AutoConsumer /\ Resolved /\ pc = "done")
        => CASE Producers = {} ->
                   /\ FailedWith("NoProducerFound")
                   /\ reads = {} /\ calls = << >>
             [] Cardinality(Producers) = 1 ->
                   /\ reads = Producers
                   /\ fatal \cap {"NoProducerFound", "AmbiguousProducer"} = {}
                   /\ files[CHOOSE n \in Producers : TRUE].exists
                         => input_list = files[CHOOSE n \in Producers : TRUE].data
             [] OTHER ->
                   /\ FailedWith("AmbiguousProducer")
                   /\ reads = {} /\ calls = << >>

\* the names of a declaration list are pairwise different
DistinctNames(q) == \A i, j \in 1..Len(q) : i # j => q[i].name # q[j].name

\* C12: with one stage producing type A and another producing type B, a consumer of
\* type A resolves to the A-producer's artifact in whichever order the stages were
\* registered: every reordering of the declarations gives the same source, and the
\* run reads that artifact and no other.
C12_ResolutionOrderIndependent ==
    (/\ AutoConsumer /\ Resolved
     /\ DistinctNames(regLog)
     /\ Cardinality(Producers) = 1
     /\ \E n \in DOMAIN modes : n # mode /\ n \notin Producers)
        => /\ reads = Producers
           /\ \A p \in Perms(regLog) :
                 /\ get_auto_input(Declare(EmptyModes, p), mode).raised = "none"
                 /\ get_auto_input(Declare(EmptyModes, p), mode).value
                       = FileInput(CHOOSE n \in Producers : TRUE)

C12_Witness ==
    /\ AutoConsumer /\ pc = "done"
    /\ Len(regLog) = 3 /\ DistinctNames(regLog)
    /\ regLog[1].document_output # modes[mode].document_input
    /\ regLog[2].document_output = modes[mode].document_input
    /\ regLog[3].name = mode
    /\ reads = {regLog[2].name}
    /\ Len(calls) > 0

RECURSIVE FirstSeen(_)
FirstSeen(ys) ==
    IF ys = << >> THEN << >>
    ELSE LET rest == FirstSeen(SubSeq(ys, 1, Len(ys) - 1))
             y == ys[Len(ys)]
         IN  IF IsDocs(y) THEN SetUpdate(rest, y.docs) ELSE rest

\* C14: the collection returned and persisted by a run (rambot wrappers, nothing
\* failing) lists the outputs in the order in which each distinct Document was first
\* produced across the item loop; a later duplicate does not move the first one.
C14_FirstSeenOrder ==
    (pc = "done" /\ ver \in {"v2", "v3"} /\ wrapperOutcome.kind = "return" /\ fatal = {})
        => /\ wrapperOutcome.value = FirstSeen(yields)
           /\ \A i \in 1..Len(writes) : writes[i].data = FirstSeen(yields)

\* C15: a run (rambot wrappers) of a stage that has a save hook invokes the hook
\* exactly once, before the artifact is written, and with the same collection that is
\* then written to the stage's artifact.
C15_HookOnceBeforeWrite ==
    /\ [](( /\ pc = "done" /\ ver \in {"v2", "v3"}
            /\ wrapperOutcome.kind # "none"
            /\ modes[mode].save # None )
              => /\ Len(hookCalls) = 1
                 /\ \A i \in 1..Len(writes) : writes[i].data = hookCalls[1])
    /\ [][(ver \in {"v2", "v3"} /\ hookCalls' # hookCalls) => writes = << >>]_vars

\* the run is a generator run: the handler was invoked once, with no document
GeneratorRun ==
    /\ mode \in DOMAIN modes /\ ~TakesDoc(modes[mode])
    /\ calls = << NoArg >>

\* C16: if the handler of a generator stage returns something that is neither a
\* Document nor a collection of Documents, the run is fatal with a type error:
\* nothing of that result enters the aggregated collection (nor reaches the save
\* hook or the artifact) and the status of the run is ERROR.
C16_GeneratorTypeMismatchFatal ==
    (pc = "done" /\ GeneratorRun /\ yields[1].kind = "junk")
        => /\ "TypeError" \in fatal
           /\ Junk \notin Range(results)
           /\ \A i \in 1..Len(hookCalls) : Junk \notin Range(hookCalls[i])
           /\ \A i \in 1..Len(writes) : Junk \notin Range(writes[i].data)
           /\ status.status = "ERROR"

\* the handler was invoked the generator way, with no document
GeneratorCall == NoArg \in Range(calls)

\* C17: without a URL override the input set of a run (rambot wrappers) comes from
\* exactly one source, by precedence: an explicit filename is read and decoded; else
\* a callable input supplies the records; else a declared input type is resolved to
\* its producer's artifact; else the stage runs as a generator.
C17_InputPrecedence ==
    (/\ pc = "done" /\ ver \in {"v2", "v3"} /\ url = None
     /\ mode \in DOMAIN modes /\ Resolved)
        => LET mi == modes[mode] IN
           CASE mi.input.kind = "file" ->
                   /\ reads = {mi.input.file}
                   /\ files[mi.input.file].exists /\ mi.input.file # mode
                         => input_list = files[mi.input.file].data
                   /\ ~GeneratorCall
             [] mi.input.kind = "callable" ->
                   /\ reads = {}
                   /\ ~GeneratorCall
             [] mi.input.kind = "none" /\ mi.document_input # None ->
                   /\ reads \subseteq Producers
                   /\ reads = {} => fatal \cap {"NoProducerFound", "AmbiguousProducer"} # {}
                   /\ ~GeneratorCall
             [] OTHER ->
                   /\ reads = {}
                   /\ \A i \in 1..Len(calls) : calls[i] = NoArg

\* C18: if opening the browser fails at the start of a run, the run is fatal: the
\* handler is never invoked in that run, no input is resolved, and the status of the
\* run is ERROR.
C18_OpenFailureFatal ==
    (pc = "done" /\ "DriverError" \in fatal)
        => /\ calls = << >>
           /\ reads = {}
           /\ status.status = "ERROR"

\* the class the fan-out builds its documents with: the declared input type, the
\* base Document when none is declared
InputClass(mi) == IF mi.document_input # None THEN mi.document_input ELSE "Document"

\* the fields of an input record, in either artifact format
RecordFields(r) == IF "document" \in DOMAIN r THEN r.document ELSE r

\* C19: in a fan-out run (rambot wrappers) over n decoded input records the handler is
\* invoked exactly once per record, in input order, each time with a Document of the
\* stage's input type built from that record, whatever earlier invocations did.
C19_FanOutOncePerRecord ==
    (/\ pc = "done" /\ ver \in {"v2", "v3"}
     /\ mode \in DOMAIN modes /\ TakesDoc(modes[mode])
     /\ Len(input_list) >= 1
     /\ BadRecord \notin Range(input_list))
        => /\ Len(calls) = Len(input_list)
           /\ \A i \in 1..Len(calls) :
                 calls[i] = construct(InputClass(modes[mode]), RecordFields(input_list[i]))

\* a ScraperConfig(...) call has been made
Constructed == pc = "config" /\ config.raised # "uncalled"

\* C20 as stated: constructing a ScraperConfig fails with ValueError whenever
\* window_size is below 640, min_delay is greater than max_delay or lang contains a
\* non-letter, and succeeds with the given values otherwise.
C20_ConfigValidationAsStated ==
    Constructed =>
       LET a == config.args IN
       IF \/ a.window_size < 640
          \/ a.min_delay > a.max_delay
          \/ \E i \in 1..Len(a.lang) : a.lang[i] \notin Letters
       THEN config.raised = "ValueError"
       ELSE config.raised = "none" /\ config.value = << a >>

\* C20: constructing a ScraperConfig fails with ValueError whenever window_size is
\* below 640, min_delay is greater than max_delay or lang is empty or contains a
\* non-letter, and succeeds with the given values otherwise.
C20_ConfigValidation ==
    Constructed =>
       LET a == config.args IN
       IF \/ a.window_size < 640
          \/ a.min_delay > a.max_delay
          \/ a.lang = << >>
          \/ \E i \in 1..Len(a.lang) : a.lang[i] \notin Letters
       THEN config.raised = "ValueError"
       ELSE config.raised = "none" /\ config.value = << a >>

C20_Witness ==
    /\ Constructed
    /\ config.args.lang = << >>
    /\ config.args.window_size >= 640
    /\ config.args.min_delay <= config.args.max_delay
    /\ config.raised = "ValueError"

\* C21: a fan-out stage (explicit input, callable input or declared input type) whose
\* resolved input set is empty invokes its handler zero times and ends with an empty
\* collection; only a stage with no input and no input type gets the no-argument
\* generator call.
C21_EmptyFanOutNoCall ==
    (/\ pc = "done" /\ ver = "v3" /\ url = None
     /\ mode \in DOMAIN modes /\ Resolved)
        => /\ (TakesDoc(modes[mode]) /\ input_list = << >>)
                 => calls = << >> /\ results = << >>
           /\ GeneratorCall => ~TakesDoc(modes[mode])

\* a stage-level exception was raised in the run and not swallowed where it arose
StageFatal ==
    \E k \in fatal : k \notin {"DriverError", "ValidationError", "OSError"} \/ Handle(k)

\* C22: when a run ends with a fatal stage-level error, the collection it returns is
\* empty, also when the error came after some input records had been processed.
C22_FatalReturnsEmpty ==
    (pc = "done" /\ wrapperOutcome.kind = "return" /\ StageFatal)
        => wrapperOutcome.value = << >>

\* the wrapper of the run is at the call of Scraper.save: its run status and its
\* collection are handed to persistence
HandsOver == pc = "save"

\* C23: the run status handed to persistence with the aggregated collection is
\* SUCCESS if and only if no stage-level exception occurred during the run, and
\* otherwise ERROR with the exception's message; a run that is over has produced
\* exactly one such status.
C23_StatusMatchesRun ==
    /\ HandsOver =>
          /\ status.status \in {"SUCCESS", "ERROR"}
          /\ status.status = "SUCCESS" <=> fatal = {}
          /\ status.status = "ERROR" => status.message \in fatal
    /\ (pc = "done" /\ validate(modes, mode) = "ok") =>
          /\ status # NoStatus
          /\ \A i \in 1..Len(writes) : writes[i].status = status

\* the handler invocations of the fan-out made so far
FanOutCalls == { i \in 1..Len(calls) : calls[i] # NoArg }

\* C24: in the rambot wrappers the fan-out is strictly sequential: whenever the next
\* record can be taken up, every handler call made so far has returned or failed and
\* the delay that follows it has been taken, after a failed item as after a
\* successful one (one delay per handler call, none missing at any point of the run).
C24_SequentialWithDelay ==
    ver \in {"v2", "v3"} =>
        /\ waits = Cardinality(FanOutCalls)
        /\ pc = "loop" => idx = Cardinality(FanOutCalls)

C24_Witness ==
    /\ ver \in {"v2", "v3"} /\ pc = "done"
    /\ Len(calls) = 2 /\ FanOutCalls = {1, 2}
    /\ yields[1].kind = "raise" /\ yields[2].kind = "doc"
    /\ waits = 2

\* C25: a run never changes the stage registry: at every point of a run, whatever
\* its outcome, the registered names and their descriptors are those the declarations
\* made before the run.
C25_RegistryReadOnly ==
    modes = Declare(EmptyModes, regLog)

C25_Witness ==
    /\ pc = "done" /\ DOMAIN modes # {}
    /\ Len(calls) > 0
    /\ outcome.kind = "raise"

\* C26: at every point of a run at most one browser handle is open (an opening never
\* adds a second handle next to an open one), and when the run is over no handle is
\* open.
C26_OneBrowserHandle ==
    /\ handles <= 1
    /\ pc = "done" => handles = 0

\* C27: every run that started the request interceptor has stopped it when
\* Scraper.run is over, on the success path and on every path that raised.
C27_InterceptorStopped ==
    pc = "done" => proxy = "off"

\* a decorated method was called and raised exception class lastOp.raised
MethodRaised == pc = "errors" /\ lastOp.op \in Methods /\ lastOp.value /\ lastOp.arg.kind = "raise"

\* the exception of the method is an instance of a configured must_raise type
MustRaiseMatch == \E t \in mustRaise : isinstance(lastOp.raised, t)

\* the call returned ModeResult(ERROR) with a message that names the method
ErrorResult ==
    /\ outcome.kind = "return"
    /\ outcome.value.status = "ERROR"
    /\ lastOp.op \in Range(outcome.value.message)
    /\ lastOp.raised \in Range(outcome.value.message)

\* C28 as stated: an exception raised by a decorated method is re-raised to the caller
\* if and only if it is an instance of a configured must_raise type; otherwise the
\* call returns a ModeResult with status ERROR and a message naming the method.
C28_ErrorsAsStated ==
    MethodRaised =>
        /\ (outcome.kind = "raise") <=> MustRaiseMatch
        /\ outcome.kind = "raise" => outcome.exc = lastOp.raised
        /\ ~MustRaiseMatch => ErrorResult

\* C28: an exception of class Exception raised by a decorated method is re-raised to
\* the caller if and only if it is an instance of a configured must_raise type, and
\* otherwise the call returns a ModeResult with status ERROR and a message naming the
\* method; an exception outside Exception (KeyboardInterrupt) always reaches the
\* caller; in no case does the call return the method's normal value.
C28_ErrorsDecorator ==
    MethodRaised =>
        /\ outcome # Returned(FuncValue)
        /\ IF isinstance(lastOp.raised, "Exception")
           THEN /\ (outcome.kind = "raise") <=> MustRaiseMatch
                /\ outcome.kind = "raise" => outcome.exc = lastOp.raised
                /\ ~MustRaiseMatch => ErrorResult
           ELSE outcome = Raised(lastOp.raised)

C28_Witness ==
    /\ MethodRaised
    /\ mustRaise = {"OSError"}
    /\ lastOp.op = "read" /\ lastOp.raised = "FileNotFoundError"
    /\ outcome = Raised("FileNotFoundError")

\* C29: after bind has decorated a function, the stage is registered, the stored
\* descriptor's handler, input, save hook, document input type and logging options
\* each equal (or, for the log file, derive from) the value passed to bind for that
\* same parameter, and the decorator has returned the function.
C29_BindStoresArguments ==
    pc = "bound" =>
        /\ lastOp.raised = "none"
        /\ lastOp.value = "fn"
        /\ lastOp.arg.mode \in DOMAIN modes
        /\ LET p == lastOp.arg
               m == modes[lastOp.arg.mode]
           IN  /\ m.func = "fn"
               /\ m.input = p.input
               /\ m.save = p.save
               /\ m.document_input = p.document_input
               /\ m.save_logs = p.save_logs
               /\ m.path = p.path
               /\ m.logs_output = set_default_logs(p.logs_output, p.path, p.mode)

\* how often the session method x was called
Times(x) == Cardinality({ i \in 1..Len(session) : session[i] = x })

\* the with block is over; how its body ended and what commit / rollback / close did
SessionOver == pc = "closed"
BodyEnd == lastOp.arg[1]
CommitDoes == lastOp.arg[2]
RollbackDoes == lastOp.arg[3]
CloseDoes == lastOp.arg[4]

\* the exception raised by the body or by the commit ("ok" when neither raised)
ScopeError == IF BodyEnd # "ok" THEN BodyEnd ELSE CommitDoes

\* close was called exactly once, as the last call on the session
ClosedOnceLast == Times("close") = 1 /\ session[Len(session)] = "close"

\* C30 as stated: the session is committed exactly when the body completes without
\* an exception, rolled back and the exception re-raised when the body or the commit
\* raises, and closed exactly once on both paths, after the commit or rollback.
C30_SessionScopeAsStated ==
    SessionOver =>
        /\ Times("commit") = (IF BodyEnd = "ok" THEN 1 ELSE 0)
        /\ ScopeError # "ok" => Times("rollback") = 1 /\ outcome = Raised(ScopeError)
        /\ ScopeError = "ok" => Times("rollback") = 0
        /\ ClosedOnceLast

\* C30: the session is committed exactly when the body completes without an
\* exception; when the body or the commit raises an exception of class Exception the
\* session is rolled back once and that exception is re-raised, unless rollback or
\* close raises, whose exception then leaves the block instead; an exception outside
\* Exception (KeyboardInterrupt) raised by the body leaves the block without a
\* rollback; close is called exactly once on every path, after the commit or
\* rollback.
C30_SessionScope ==
    SessionOver =>
        /\ Times("commit") = (IF BodyEnd = "ok" THEN 1 ELSE 0)
        /\ IF ScopeError # "ok" /\ isinstance(ScopeError, "Exception")
           THEN /\ Times("rollback") = 1
                /\ outcome = Raised(IF CloseDoes # "ok" THEN CloseDoes
                                    ELSE IF RollbackDoes # "ok" THEN RollbackDoes
                                    ELSE ScopeError)
           ELSE /\ Times("rollback") = 0
                /\ outcome = IF CloseDoes # "ok" THEN Raised(CloseDoes)
                             ELSE IF ScopeError # "ok" THEN Raised(ScopeError)
                             ELSE ReturnedNone
        /\ ClosedOnceLast

C30_Witness ==
    /\ SessionOver
    /\ BodyEnd = "ok" /\ CommitDoes = "OperationalError"
    /\ RollbackDoes = "ok" /\ CloseDoes = "ok"
    /\ session = << "Session", "add", "commit", "rollback", "close" >>
    /\ outcome = Raised("OperationalError")


====
